---- MODULE Spec2Model ----
(***************************************************************************)
(* Office attendance analytics (src/Office_sess_analytics.py).             *)
(*                                                                         *)
(* Time is counted in ticks of 30 minutes since 2023-02-01T00:00, so every *)
(* value the program computes as a float number of hours is an exact       *)
(* multiple of 0.5 and is kept here as an integer number of ticks.         *)
(* An average_per_day is kept in hundredths of an hour.                    *)
(***************************************************************************)
EXTENDS Integers, Sequences, FiniteSets, TLC

VARIABLES
    pc,                 \* position of the running function
    n,                  \* number of entries the running loop has consumed
    entry,              \* loop variable `entry` of process_time_entries / the grouping loop
    user_data,          \* process_time_entries: the per-user mapping, in insertion order
    ranked_result,      \* calculate_average_and_rank: its return value
    timestamps_action,  \* calculate_sessions: its argument
    idx,                \* calculate_sessions: number of events consumed by its loop
    session_lengths,    \* calculate_sessions: closed sessions <<start, end>>
    start_time,         \* calculate_sessions: start of the open session or None
    last_out_time,      \* calculate_sessions: latest GATE_OUT or None
    raw_data,           \* main: the rows read by get_data
    february_data,      \* main: the rows kept by get_data
    activity_per_user,  \* find_longest_work_session: per-user events, insertion order
    longest             \* find_longest_work_session: <<user_with_max_time, max_session_time>>

vars == <<pc, n, entry, user_data, ranked_result, timestamps_action, idx,
          session_lengths, start_time, last_out_time, raw_data, february_data,
          activity_per_user, longest>>

-----------------------------------------------------------------------------
(* Bounds of the explored inputs *)

MaxEvents == 4      \* entries fed to process_time_entries
MaxDay == 2         \* days of February the explored timestamps fall on
MaxLen == 4         \* events of one user given to calculate_sessions
MaxHour == 3        \* latest hour mark of the events given to calculate_sessions
MaxRows == 3        \* rows of the file read by main
MaxTime == 5        \* largest |total time|, in ticks, of a mapping given to the ranker
MaxDates == 3       \* dates a user of such a mapping can have been present on

(* Program constants *)

TicksPerHour == 2
HoursPerDay == 24
SessionBreakHours == 2
TargetMonth == 2
DaysInFebruary == 28

TicksPerDay == TicksPerHour * HoursPerDay
SecondsPerTick == 3600 \div TicksPerHour

-----------------------------------------------------------------------------
(* Values *)

None == "<None>"            \* Python's None where a string is expected
NoTime == -1                \* Python's None where a datetime is expected
NoAction == << >>           \* Python's None for last_action

\* An event_time cell: a string in the format %Y-%m-%dT%H:%M:%S.%fZ ("iso"),
\* a string in another format ("bad"), the empty string, or no value at all.
\* month is the month the string starts with ('2023-MM'), 0 if it has none.
IsoTime(month, day, tick) == [form |-> "iso", month |-> month, day |-> day, tick |-> tick]
BadTime(month) == [form |-> "bad", month |-> month, day |-> 0, tick |-> 0]
EmptyTime == [form |-> "empty", month |-> 0, day |-> 0, tick |-> 0]
NoneTime == [form |-> "none", month |-> 0, day |-> 0, tick |-> 0]

Row(u, t, a) == [user_id |-> u, event_time |-> t, event_type |-> a]

\* datetime.strptime(s, '%Y-%m-%dT%H:%M:%S.%fZ'): the parsed instant in ticks, or
\* the exception raised (TypeError for None, ValueError for any other mismatch).
Strptime(s) ==
    CASE s.form = "iso"  -> [exc |-> "", value |->
                               ((s.month - TargetMonth) * DaysInFebruary + (s.day - 1))
                                   * TicksPerDay + s.tick]
      [] s.form = "none" -> [exc |-> "TypeError", value |-> NoTime]
      [] OTHER           -> [exc |-> "ValueError", value |-> NoTime]

\* str.upper() on the event types that occur
Upper(s) ==
    CASE s = "gate_in"  -> "GATE_IN"
      [] s = "gate_out" -> "GATE_OUT"
      [] OTHER          -> s

\* datetime.date(): the calendar day of an instant
DateOf(ts) == ts \div TicksPerDay

\* truthiness of a str-or-None
Truthy(s) == s # None /\ s # ""

-----------------------------------------------------------------------------
(* process_time_entries *)

\* faulty variant: every key is looked up in the first slot of the mapping
IndexOfFirst(m, u) == IF Len(m) > 0 THEN 1 ELSE 0

\* position of key u in a mapping kept as a sequence of records with a user_id
\* field (insertion order), 0 if u is no key of it
IndexOf(m, u) ==
    IF \E i \in 1..Len(m) : m[i].user_id = u
    THEN CHOOSE i \in 1..Len(m) : m[i].user_id = u
    ELSE 0

Keys(m) == {m[i].user_id : i \in 1..Len(m)}

\* the value a defaultdict(lambda: {'time': 0.0, 'days': set(), 'last_action': None})
\* makes for a missing key
DefaultUser(u) == [user_id |-> u, time |-> 0, days |-> {}, last_action |-> NoAction]

\* user_data[u]: the stored value, or the default inserted at the end
Touch(ud, u) == IF IndexOf(ud, u) = 0 THEN Append(ud, DefaultUser(u)) ELSE ud

\* faulty variant: the interval is credited on every transition that ends in GATE_OUT
CreditedAnyOut(last, action, timestamp) ==
    action = "GATE_OUT"

\* faulty variant: the interval is credited whenever the two actions differ
CreditedAnyPair(last, action, timestamp) ==
    last[1] # action

\* the test of line 39
Credited(last, action, timestamp) ==
    last[1] = "GATE_IN" /\ action = "GATE_OUT"

\* faulty variant: a repeated action does not replace the stored last_action
UpdateUserKeepsFirst(r, action, timestamp) ==
    IF r.last_action = NoAction
    THEN [r EXCEPT !.last_action = <<action, timestamp>>]
    ELSE IF Credited(r.last_action, action, timestamp)
         THEN [r EXCEPT !.time = @ + (timestamp - r.last_action[2]),
                        !.days = @ \cup {DateOf(timestamp)},
                        !.last_action = <<action, timestamp>>]
         ELSE IF r.last_action[1] = action THEN r
              ELSE [r EXCEPT !.last_action = <<action, timestamp>>]

\* faulty variant: the interval is credited without recording the day
UpdateUserNoDay(r, action, timestamp) ==
    IF r.last_action = NoAction
    THEN [r EXCEPT !.last_action = <<action, timestamp>>]
    ELSE IF Credited(r.last_action, action, timestamp)
         THEN [r EXCEPT !.time = @ + (timestamp - r.last_action[2]),
                        !.last_action = <<action, timestamp>>]
         ELSE [r EXCEPT !.last_action = <<action, timestamp>>]

\* lines 35-43 on the record of one user
UpdateUser(r, action, timestamp) ==
    IF r.last_action = NoAction
    THEN [r EXCEPT !.last_action = <<action, timestamp>>]
    ELSE IF Credited(r.last_action, action, timestamp)
         THEN [r EXCEPT !.time = @ + (timestamp - r.last_action[2]),
                        !.days = @ \cup {DateOf(timestamp)},
                        !.last_action = <<action, timestamp>>]
         ELSE [r EXCEPT !.last_action = <<action, timestamp>>]

\* One iteration of the loop of lines 27-49 on entry e: the mapping afterwards
\* and the exception that leaves the function ("" if none does).
\* strptime(None) raises TypeError and None.upper() raises AttributeError;
\* the handler of line 47 catches only ValueError and KeyError.
ProcessEntry(ud, e) ==
    LET parsed == Strptime(e.event_time) IN
    IF parsed.exc = "ValueError" THEN [user_data |-> ud, exc |-> ""]
    ELSE IF parsed.exc # "" THEN [user_data |-> ud, exc |-> parsed.exc]
    ELSE IF e.event_type = None THEN [user_data |-> ud, exc |-> "AttributeError"]
    ELSE LET action == Upper(e.event_type)
             u == e.user_id
         IN  IF Truthy(u) /\ action # ""
             THEN LET t == Touch(ud, u)
                      i == IndexOf(t, u)
                  IN  [user_data |-> [t EXCEPT ![i] = UpdateUser(t[i], action, parsed.value)],
                       exc |-> ""]
             ELSE [user_data |-> ud, exc |-> ""]

\* an entry the loop does not skip and that raises nothing
IsValid(e) ==
    /\ Strptime(e.event_time).exc = ""
    /\ e.event_type # None /\ Upper(e.event_type) # ""
    /\ Truthy(e.user_id)

\* the whole function on a list: the mapping returned, or the exception raised
RECURSIVE ProcessFrom(_, _, _)
ProcessFrom(ud, data, i) ==
    IF i > Len(data) THEN [user_data |-> ud, exc |-> ""]
    ELSE LET r == ProcessEntry(ud, data[i])
         IN  IF r.exc # "" THEN r ELSE ProcessFrom(r.user_data, data, i + 1)

ProcessTimeEntries(data) == ProcessFrom(<< >>, data, 1)

\* what the mapping holds for u, the default if u is no key
TimeOf(ud, u) == IF IndexOf(ud, u) = 0 THEN 0 ELSE ud[IndexOf(ud, u)].time
DaysOf(ud, u) == IF IndexOf(ud, u) = 0 THEN {} ELSE ud[IndexOf(ud, u)].days
LastActionOf(ud, u) == IF IndexOf(ud, u) = 0 THEN NoAction ELSE ud[IndexOf(ud, u)].last_action

-----------------------------------------------------------------------------
(* calculate_average_and_rank *)

\* round(num/den, 0) for den > 0, ties to even, as Python's round() does on a
\* value that is exact in binary floating point
RoundHalfEven(num, den) ==
    LET q == num \div den
        r == num % den
    IN  IF 2 * r < den THEN q
        ELSE IF 2 * r > den THEN q + 1
        ELSE IF q % 2 = 0 THEN q ELSE q + 1

\* faulty variant: the quotient is cut off after two decimals, not rounded
CalculateAverageTruncated(values) ==
    LET days_present == Cardinality(values.days)
    IN  IF days_present # 0
        THEN (100 * values.time) \div (TicksPerHour * days_present)
        ELSE 0

\* calculate_average (lines 58-64): round(time / days_present, 2) in hundredths
\* of an hour, 0 without a day
CalculateAverage(values) ==
    LET days_present == Cardinality(values.days)
    IN  IF days_present # 0
        THEN RoundHalfEven(100 * values.time, TicksPerHour * days_present)
        ELSE 0

\* lines 67-70: one tuple (user_id, time, days, average_per_day) per key
ResultRows(ud) ==
    [i \in 1..Len(ud) |->
        [user_id |-> ud[i].user_id, time |-> ud[i].time,
         days |-> Cardinality(ud[i].days), average_per_day |-> CalculateAverage(ud[i])]]

\* faulty variant: a row goes before the rows of equal average (not stable)
InsertBeforeEqual(sorted, x) ==
    LET k == Cardinality({j \in 1..Len(sorted) :
                             sorted[j].average_per_day > x.average_per_day})
    IN  SubSeq(sorted, 1, k) \o <<x>> \o SubSeq(sorted, k + 1, Len(sorted))

\* faulty variant: ascending order
InsertAscending(sorted, x) ==
    LET k == Cardinality({j \in 1..Len(sorted) :
                             sorted[j].average_per_day <= x.average_per_day})
    IN  SubSeq(sorted, 1, k) \o <<x>> \o SubSeq(sorted, k + 1, Len(sorted))

\* x placed in a descending list behind every row whose average is >= its own
InsertDescending(sorted, x) ==
    LET k == Cardinality({j \in 1..Len(sorted) :
                             sorted[j].average_per_day >= x.average_per_day})
    IN  SubSeq(sorted, 1, k) \o <<x>> \o SubSeq(sorted, k + 1, Len(sorted))

\* result.sort(key=itemgetter(3), reverse=True) (line 73): a stable sort, rows
\* of equal key keep their order
RECURSIVE SortDescending(_)
SortDescending(rows) ==
    IF rows = << >> THEN << >>
    ELSE InsertDescending(SortDescending(SubSeq(rows, 1, Len(rows) - 1)), rows[Len(rows)])

\* line 74: the rank is the 1-based position
Ranked(sorted) ==
    [i \in 1..Len(sorted) |->
        [user_id |-> sorted[i].user_id, time |-> sorted[i].time, days |-> sorted[i].days,
         average_per_day |-> sorted[i].average_per_day, rank |-> i]]

CalculateAverageAndRank(ud) == Ranked(SortDescending(ResultRows(ud)))

-----------------------------------------------------------------------------
(* The entries fed to the aggregator *)

Users == {"u1", "u2"}
EventTypes == {"gate_in", "gate_out"}

\* the explored timestamps: the ticks of the first hour of the first MaxDay days
Instants == {IsoTime(TargetMonth, d, t) : d \in 1..MaxDay, t \in 0..(TicksPerHour - 1)}

ValidEntries == {Row(u, t, a) : u \in Users, t \in Instants, a \in EventTypes}

\* entries with a field that is empty, absent or not in the format
MalformedEntries ==
    LET t0 == IsoTime(TargetMonth, 1, 1) IN
    { Row("", t0, "gate_out"), Row(None, t0, "gate_out"),
      Row("u1", EmptyTime, "gate_out"), Row("u1", BadTime(TargetMonth), "gate_out"),
      Row("u1", NoneTime, "gate_out"),
      Row("u1", t0, ""), Row("u1", t0, None) }

Entries == ValidEntries \cup MalformedEntries

NoEntry == Row(None, NoneTime, None)

-----------------------------------------------------------------------------
(* Specification SpecAgg: process_time_entries on any list of at most        *)
(* MaxEvents entries, then calculate_average_and_rank on what it returns     *)

AggIdle ==
    /\ timestamps_action = << >> /\ idx = 0 /\ session_lengths = << >>
    /\ start_time = NoTime /\ last_out_time = NoTime
    /\ raw_data = << >> /\ february_data = << >>
    /\ activity_per_user = << >> /\ longest = <<None, 0>>

AggInit ==
    /\ pc = "loop" /\ n = 0 /\ entry = NoEntry
    /\ user_data = << >> /\ ranked_result = << >>
    /\ AggIdle

AggUnchanged ==
    UNCHANGED <<timestamps_action, idx, session_lengths, start_time, last_out_time,
                raw_data, february_data, activity_per_user, longest>>

\* one iteration of the loop of line 27 on the next entry of the list
AggIterate ==
    /\ pc = "loop" /\ n < MaxEvents
    /\ \E e \in Entries :
         LET r == ProcessEntry(user_data, e) IN
         /\ entry' = e
         /\ n' = n + 1
         /\ user_data' = r.user_data
         /\ pc' = IF r.exc = "" THEN "loop" ELSE "raised"
    /\ UNCHANGED ranked_result
    /\ AggUnchanged

\* the list is exhausted: return user_data (line 51)
AggReturn ==
    /\ pc = "loop"
    /\ pc' = "returned"
    /\ UNCHANGED <<n, entry, user_data, ranked_result>>
    /\ AggUnchanged

\* calculate_average_and_rank(user_data) (main, line 161)
AggRank ==
    /\ pc = "returned"
    /\ ranked_result' = CalculateAverageAndRank(user_data)
    /\ pc' = "ranked"
    /\ UNCHANGED <<n, entry, user_data>>
    /\ AggUnchanged

AggNext == AggIterate \/ AggReturn \/ AggRank

SpecAgg == AggInit /\ [][AggNext]_vars

-----------------------------------------------------------------------------
(* Claims on the aggregator and the ranker (SpecAgg) *)

\* the step is an iteration of the loop of process_time_entries on entry'
Iterated == pc = "loop" /\ n' = n + 1

\* C1: processing a valid event e of user u changes u's total_hours or
\* days_present only if u's latest valid event was a GATE_IN and e is a
\* GATE_OUT; then total_hours grows by e.timestamp minus that GATE_IN's
\* timestamp and the date of e joins days_present. Any other transition,
\* the user's first event included, leaves both as they were.
C1_CreditOnlyInThenOut ==
    [][ (Iterated /\ IsValid(entry')) =>
          LET u == entry'.user_id
              ts == Strptime(entry'.event_time).value
              last == LastActionOf(user_data, u)
          IN  IF last # NoAction /\ last[1] = "GATE_IN"
                              /\ Upper(entry'.event_type) = "GATE_OUT"
              THEN /\ TimeOf(user_data', u) = TimeOf(user_data, u) + (ts - last[2])
                   /\ DaysOf(user_data', u) = DaysOf(user_data, u) \cup {DateOf(ts)}
              ELSE /\ TimeOf(user_data', u) = TimeOf(user_data, u)
                   /\ DaysOf(user_data', u) = DaysOf(user_data, u) ]_vars

\* a GATE_IN late on the first day followed by a GATE_OUT early on the second
\* has been credited: 47 ticks (23.5 hours), on the date of the GATE_OUT
C1_Witness ==
    /\ pc = "loop" /\ IsValid(entry) /\ entry.event_type = "gate_out"
    /\ TimeOf(user_data, entry.user_id) = TicksPerDay - 1
    /\ DaysOf(user_data, entry.user_id) = {1}

\* C2: total_hours of a user never decreases from one processed event to the
\* next, whatever the order of the timestamps in the input (so it is never
\* negative).
C2_TotalHoursNeverDecreases ==
    [][ \A u \in Users : TimeOf(user_data', u) >= TimeOf(user_data, u) ]_vars

\* the event has a user_id, timestamp or type that is absent or empty, or a
\* timestamp that does not parse
IsDefective(e) ==
    \/ ~Truthy(e.user_id)
    \/ e.event_time.form # "iso"
    \/ ~Truthy(e.event_type)

\* C6: an event with a missing (absent or empty) user_id, timestamp or type,
\* or an unparseable timestamp, is skipped: the mapping is unchanged, no
\* error leaves process_time_entries and the loop goes on.
C6_DefectiveEntrySkipped ==
    [][ (Iterated /\ IsDefective(entry')) =>
          (user_data' = user_data /\ pc' = "loop") ]_vars

\* C8: the ranking has exactly one entry per user of the mapping, the ranks
\* are exactly 1..N, and a smaller rank never has a smaller average_per_day.
C8_DenseRanks ==
    pc = "ranked" =>
        LET N == Len(user_data) IN
        /\ Len(ranked_result) = N
        /\ \A u \in Keys(user_data) :
              Cardinality({i \in 1..N : ranked_result[i].user_id = u}) = 1
        /\ {ranked_result[i].rank : i \in 1..N} = 1..N
        /\ \A i \in 1..N : ranked_result[i].rank = i
        /\ \A i, j \in 1..N :
              ranked_result[i].rank < ranked_result[j].rank
                  => ranked_result[i].average_per_day >= ranked_result[j].average_per_day

\* two users are ranked, the one inserted second with the larger average first
C8_Witness ==
    /\ pc = "ranked" /\ Len(ranked_result) = 2
    /\ ranked_result[1].user_id = user_data[2].user_id
    /\ ranked_result[1].average_per_day > ranked_result[2].average_per_day
    /\ ranked_result[2].average_per_day > 0

\* the rank calculate_average_and_rank gave user u
RankOf(u) ==
    LET i == CHOOSE i \in 1..Len(ranked_result) : ranked_result[i].user_id = u
    IN  ranked_result[i].rank

\* C9: of two users with equal average_per_day, the one inserted earlier
\* into the aggregator mapping gets the smaller rank.
C9_TiesKeepInsertionOrder ==
    pc = "ranked" =>
        \A i, j \in 1..Len(user_data) :
            (i < j /\ CalculateAverage(user_data[i]) = CalculateAverage(user_data[j]))
                => RankOf(user_data[i].user_id) < RankOf(user_data[j].user_id)

\* two users with the same non-zero average have been ranked
C9_Witness ==
    /\ pc = "ranked" /\ Len(user_data) = 2
    /\ CalculateAverage(user_data[1]) = CalculateAverage(user_data[2])
    /\ CalculateAverage(user_data[1]) > 0

\* C10: a GATE_IN appended to the list leaves total_hours and days_present of
\* every user as the aggregator had them without it.
C10_TrailingGateInCreditsNothing ==
    [][ (Iterated /\ IsValid(entry') /\ Upper(entry'.event_type) = "GATE_IN") =>
          \A u \in Users :
              /\ TimeOf(user_data', u) = TimeOf(user_data, u)
              /\ DaysOf(user_data', u) = DaysOf(user_data, u) ]_vars

\* a GATE_IN has been processed right after a GATE_OUT of the same user that
\* was credited
C10_Witness ==
    /\ pc = "loop" /\ IsValid(entry) /\ entry.event_type = "gate_in"
    /\ TimeOf(user_data, entry.user_id) > 0
    /\ LastActionOf(user_data, entry.user_id)[1] = "GATE_IN"

-----------------------------------------------------------------------------
(* calculate_sessions and get_max_session_time *)

SessionBreakTicks == SessionBreakHours * TicksPerHour

\* faulty variant: only a gap of more than two hours breaks the session
GapBreaksStrict(timestamp, last_out) ==
    /\ last_out # NoTime
    /\ timestamp - last_out # 0
    /\ timestamp - last_out > SessionBreakTicks

\* lines 103-104: time_diff is None without a GATE_OUT so far; a zero timedelta
\* is falsy; otherwise the test is time_diff >= timedelta(hours=2)
GapBreaks(timestamp, last_out) ==
    /\ last_out # NoTime
    /\ timestamp - last_out # 0
    /\ timestamp - last_out >= SessionBreakTicks

\* the state of the loop of calculate_sessions
SessState(sl, st, lo) == [session_lengths |-> sl, start_time |-> st, last_out_time |-> lo]

\* faulty variant: a GATE_IN inside an open session moves its start
SessionStepResetsStart(s, ev) ==
    LET timestamp == ev[1]
        action == ev[2]
    IN  IF action = "GATE_IN"
        THEN IF s.start_time # NoTime /\ GapBreaks(timestamp, s.last_out_time)
             THEN SessState(Append(s.session_lengths, <<s.start_time, s.last_out_time>>),
                            timestamp, s.last_out_time)
             ELSE SessState(s.session_lengths, timestamp, s.last_out_time)
        ELSE IF action = "GATE_OUT"
             THEN SessState(s.session_lengths, s.start_time, timestamp)
             ELSE s

\* one iteration of the loop of lines 100-110 on ev = <<timestamp, action>>
SessionStep(s, ev) ==
    LET timestamp == ev[1]
        action == ev[2]
    IN  IF action = "GATE_IN"
        THEN IF s.start_time # NoTime
             THEN IF GapBreaks(timestamp, s.last_out_time)
                  THEN SessState(Append(s.session_lengths, <<s.start_time, s.last_out_time>>),
                                 timestamp, s.last_out_time)
                  ELSE s
             ELSE SessState(s.session_lengths, timestamp, s.last_out_time)
        ELSE IF action = "GATE_OUT"
             THEN SessState(s.session_lengths, s.start_time, timestamp)
             ELSE s

\* lines 112-115: the open session is closed if it has a GATE_OUT
SessionClose(s) ==
    IF s.start_time # NoTime /\ s.last_out_time # NoTime
    THEN Append(s.session_lengths, <<s.start_time, s.last_out_time>>)
    ELSE s.session_lengths

RECURSIVE SessionsFrom(_, _, _)
SessionsFrom(s, evs, i) ==
    IF i > Len(evs) THEN SessionClose(s)
    ELSE SessionsFrom(SessionStep(s, evs[i]), evs, i + 1)

\* calculate_sessions(timestamps_action) (lines 92-115)
CalculateSessions(evs) == SessionsFrom(SessState(<< >>, NoTime, NoTime), evs, 1)

\* (x[1] - x[0]).total_seconds()
DurationSeconds(x) == (x[2] - x[1]) * SecondsPerTick

\* get_max_session_time (line 121): max(..., default=0)
GetMaxSessionTime(session_times) ==
    IF session_times = << >> THEN 0
    ELSE LET ds == {DurationSeconds(session_times[i]) : i \in 1..Len(session_times)}
         IN  CHOOSE d \in ds : \A x \in ds : x <= d

-----------------------------------------------------------------------------
(* Specification SpecSess: calculate_sessions on any list of at most MaxLen  *)
(* events at hour marks 0..MaxHour, and on the two lists of the examples     *)

SessionEvents == {<<TicksPerHour * h, a>> : h \in 0..MaxHour, a \in {"GATE_IN", "GATE_OUT"}}

\* 09:00, 12:00, 12:30, 15:00 and 18:00 of the first day, in ticks
Clock(h, m) == h * TicksPerHour + (m * TicksPerHour) \div 60

ExampleShortGap ==
    << <<Clock(9, 0), "GATE_IN">>, <<Clock(12, 0), "GATE_OUT">>,
       <<Clock(12, 30), "GATE_IN">>, <<Clock(18, 0), "GATE_OUT">> >>

ExampleLongGap ==
    << <<Clock(9, 0), "GATE_IN">>, <<Clock(12, 0), "GATE_OUT">>,
       <<Clock(15, 0), "GATE_IN">>, <<Clock(18, 0), "GATE_OUT">> >>

SessionInputs ==
    UNION {[1..k -> SessionEvents] : k \in 0..MaxLen}
        \cup {ExampleShortGap, ExampleLongGap}

SessIdle ==
    /\ n = 0 /\ entry = NoEntry /\ user_data = << >> /\ ranked_result = << >>
    /\ raw_data = << >> /\ february_data = << >>
    /\ activity_per_user = << >> /\ longest = <<None, 0>>

SessInit ==
    /\ pc = "sessions"
    /\ timestamps_action \in SessionInputs
    /\ idx = 0 /\ session_lengths = << >>
    /\ start_time = NoTime /\ last_out_time = NoTime
    /\ SessIdle

SessUnchanged ==
    UNCHANGED <<n, entry, user_data, ranked_result, raw_data, february_data,
                activity_per_user, longest, timestamps_action>>

\* one iteration of the loop of line 100
SessIterate ==
    /\ pc = "sessions" /\ idx < Len(timestamps_action)
    /\ LET s == SessionStep(SessState(session_lengths, start_time, last_out_time),
                            timestamps_action[idx + 1])
       IN  /\ session_lengths' = s.session_lengths
           /\ start_time' = s.start_time
           /\ last_out_time' = s.last_out_time
    /\ idx' = idx + 1
    /\ UNCHANGED pc
    /\ SessUnchanged

\* the loop is over: lines 112-115
SessReturn ==
    /\ pc = "sessions" /\ idx = Len(timestamps_action)
    /\ session_lengths' = SessionClose(SessState(session_lengths, start_time, last_out_time))
    /\ pc' = "sessions_returned"
    /\ UNCHANGED <<idx, start_time, last_out_time>>
    /\ SessUnchanged

SessNext == SessIterate \/ SessReturn

SpecSess == SessInit /\ [][SessNext]_vars

-----------------------------------------------------------------------------
(* Claims on calculate_sessions (SpecSess) *)

\* the events are GATE_IN, GATE_OUT, GATE_IN, GATE_OUT, ... in complete pairs,
\* with timestamps that never go back
AlternatingPairs(evs) ==
    /\ Len(evs) > 0 /\ Len(evs) % 2 = 0
    /\ \A i \in 1..Len(evs) : evs[i][2] = (IF i % 2 = 1 THEN "GATE_IN" ELSE "GATE_OUT")
    /\ \A i \in 1..(Len(evs) - 1) : evs[i][1] <= evs[i + 1][1]

\* The sessions of a list of pairs, first pair a of the session that pair k is
\* in: pair k + 1 is in the same session exactly when its GATE_IN comes less
\* than two hours after the GATE_OUT of pair k.
RECURSIVE PairSessions(_, _, _)
PairSessions(evs, k, a) ==
    IF 2 * k = Len(evs) THEN << <<evs[2 * a - 1][1], evs[2 * k][1]>> >>
    ELSE IF evs[2 * k + 1][1] - evs[2 * k][1] < SessionBreakTicks
         THEN PairSessions(evs, k + 1, a)
         ELSE << <<evs[2 * a - 1][1], evs[2 * k][1]>> >> \o PairSessions(evs, k + 1, k + 1)

-----------------------------------------------------------------------------
(* get_data and find_longest_work_session *)

\* faulty variant: only the year is compared
StartsWithTargetYear(t) == t.month # 0

\* entry['event_time'].startswith('2023-02') (line 14); a cell without a value
\* has no startswith
StartsWithTargetMonth(t) == t.month = TargetMonth

\* get_data (lines 7-16) on the rows read: the rows kept, or the exception
GetData(data) ==
    IF \E i \in 1..Len(data) : data[i].event_time.form = "none"
    THEN [rows |-> << >>, exc |-> "AttributeError"]
    ELSE [rows |-> SelectSeq(data, LAMBDA e : StartsWithTargetMonth(e.event_time)),
          exc |-> ""]

\* one iteration of the loop of lines 86-90: nothing is caught here
GroupEntry(act, e) ==
    LET parsed == Strptime(e.event_time) IN
    IF parsed.exc # "" THEN [activity |-> act, exc |-> parsed.exc]
    ELSE IF e.event_type = None THEN [activity |-> act, exc |-> "AttributeError"]
    ELSE LET ev == <<parsed.value, Upper(e.event_type)>>
             i == IndexOf(act, e.user_id)
         IN  [activity |->
                 IF i = 0 THEN Append(act, [user_id |-> e.user_id, events |-> <<ev>>])
                 ELSE [act EXCEPT ![i].events = Append(@, ev)],
              exc |-> ""]

RECURSIVE GroupFrom(_, _, _)
GroupFrom(act, data, i) ==
    IF i > Len(data) THEN [activity |-> act, exc |-> ""]
    ELSE LET r == GroupEntry(act, data[i])
         IN  IF r.exc # "" THEN r ELSE GroupFrom(r.activity, data, i + 1)

\* one iteration of the loop of lines 126-131 on best =
\* <<user_with_max_time, max_session_time>>
LongestStep(best, user) ==
    LET max_time_for_user == GetMaxSessionTime(CalculateSessions(user.events))
    IN  IF max_time_for_user > best[2] THEN <<user.user_id, max_time_for_user>> ELSE best

RECURSIVE LongestFrom(_, _, _)
LongestFrom(best, act, i) ==
    IF i > Len(act) THEN best ELSE LongestFrom(LongestStep(best, act[i]), act, i + 1)

\* find_longest_work_session(data) (lines 79-133): the pair returned, or the
\* exception raised
FindLongestWorkSession(data) ==
    LET g == GroupFrom(<< >>, data, 1)
    IN  IF g.exc # "" THEN [value |-> <<None, 0>>, exc |-> g.exc]
        ELSE [value |-> LongestFrom(<<None, 0>>, g.activity, 1), exc |-> ""]

-----------------------------------------------------------------------------
(* Specification SpecMain: main() on any file of at most MaxRows rows        *)

FirstHour == {IsoTime(TargetMonth, 1, t) : t \in 0..(TicksPerHour - 1)}

MainRows ==
    LET t0 == IsoTime(TargetMonth, 1, 0) IN
    {Row(u, t, a) : u \in Users, t \in FirstHour, a \in EventTypes}
        \cup { Row("u1", IsoTime(TargetMonth + 1, 1, 0), "gate_out"),
               Row("u1", BadTime(TargetMonth), "gate_in"),
               Row("u1", EmptyTime, "gate_in"),
               Row("u1", NoneTime, "gate_in"),
               Row("", t0, "gate_out"),
               Row("u1", t0, ""),
               Row("u1", t0, None) }

\* one user: GATE_IN 09:00, GATE_IN 09:30, GATE_OUT 17:00 on the first day
ExampleRepeatedIn ==
    << Row("u1", IsoTime(TargetMonth, 1, Clock(9, 0)), "gate_in"),
       Row("u1", IsoTime(TargetMonth, 1, Clock(9, 30)), "gate_in"),
       Row("u1", IsoTime(TargetMonth, 1, Clock(17, 0)), "gate_out") >>

MainInputs == UNION {[1..k -> MainRows] : k \in 0..MaxRows} \cup {ExampleRepeatedIn}

MainIdle ==
    /\ n = 0 /\ entry = NoEntry
    /\ timestamps_action = << >> /\ idx = 0 /\ session_lengths = << >>
    /\ start_time = NoTime /\ last_out_time = NoTime

MainInit ==
    /\ pc = "get_data"
    /\ raw_data \in MainInputs
    /\ february_data = << >> /\ user_data = << >> /\ ranked_result = << >>
    /\ activity_per_user = << >> /\ longest = <<None, 0>>
    /\ MainIdle

MainUnchanged ==
    UNCHANGED <<n, entry, timestamps_action, idx, session_lengths, start_time,
                last_out_time, raw_data>>

\* line 155
MainGetData ==
    /\ pc = "get_data"
    /\ LET r == GetData(raw_data)
       IN  /\ february_data' = r.rows
           /\ pc' = IF r.exc = "" THEN "process" ELSE "aborted"
    /\ UNCHANGED <<user_data, ranked_result, activity_per_user, longest>>
    /\ MainUnchanged

\* line 158
MainProcess ==
    /\ pc = "process"
    /\ LET r == ProcessTimeEntries(february_data)
       IN  /\ user_data' = r.user_data
           /\ pc' = IF r.exc = "" THEN "rank" ELSE "aborted"
    /\ UNCHANGED <<february_data, ranked_result, activity_per_user, longest>>
    /\ MainUnchanged

\* line 161
MainRank ==
    /\ pc = "rank"
    /\ ranked_result' = CalculateAverageAndRank(user_data)
    /\ pc' = "longest"
    /\ UNCHANGED <<february_data, user_data, activity_per_user, longest>>
    /\ MainUnchanged

\* line 169
MainLongest ==
    /\ pc = "longest"
    /\ LET g == GroupFrom(<< >>, february_data, 1)
           r == FindLongestWorkSession(february_data)
       IN  /\ activity_per_user' = g.activity
           /\ longest' = r.value
           /\ pc' = IF r.exc = "" THEN "done" ELSE "aborted"
    /\ UNCHANGED <<february_data, user_data, ranked_result>>
    /\ MainUnchanged

MainNext == MainGetData \/ MainProcess \/ MainRank \/ MainLongest

SpecMain == MainInit /\ [][MainNext]_vars

-----------------------------------------------------------------------------
(* Claims on find_longest_work_session and the pipeline (SpecMain) *)

SessionsOf(i) == CalculateSessions(activity_per_user[i].events)

\* the durations, in seconds, of all sessions of all users
AllDurations ==
    UNION {{DurationSeconds(SessionsOf(i)[j]) : j \in 1..Len(SessionsOf(i))}
              : i \in 1..Len(activity_per_user)}

\* C4: the result is the maximum duration over all sessions of all users with
\* a user that has a session of that duration, and of several such users the
\* one whose first event comes first in the input.
C4_LongestIsGlobalMaximum ==
    (pc = "done" /\ AllDurations # {}) =>
        LET best == CHOOSE d \in AllDurations : \A x \in AllDurations : x <= d
            achievers == {i \in 1..Len(activity_per_user) :
                             \E j \in 1..Len(SessionsOf(i)) :
                                 DurationSeconds(SessionsOf(i)[j]) = best}
            first == CHOOSE i \in achievers : \A k \in achievers : i <= k
        IN  /\ longest[2] = best
            /\ longest[1] = activity_per_user[first].user_id

\* C5: the result is (None, 0) if no user has a closed session (and with no
\* events the ranking is empty too); otherwise it is a user with at least one
\* closed session and the longest session length of that user.
C5_NoneOnlyWithoutSessions ==
    pc = "done" =>
        /\ february_data = << >> => (ranked_result = << >> /\ longest = <<None, 0>>)
        /\ IF \A i \in 1..Len(activity_per_user) : SessionsOf(i) = << >>
           THEN longest = <<None, 0>>
           ELSE \E i \in 1..Len(activity_per_user) :
                   /\ longest[1] = activity_per_user[i].user_id
                   /\ SessionsOf(i) # << >>
                   /\ longest[2] = GetMaxSessionTime(SessionsOf(i))

RemoveAt(seq, k) == SubSeq(seq, 1, k - 1) \o SubSeq(seq, k + 1, Len(seq))

\* what main computes from the rows: ranking and longest session, or aborted
Pipeline(rows) ==
    LET f == GetData(rows)
        p == ProcessTimeEntries(f.rows)
        l == FindLongestWorkSession(f.rows)
    IN  IF f.exc # "" \/ p.exc # "" \/ l.exc # ""
        THEN [aborted |-> TRUE, ranking |-> << >>, longest |-> <<None, 0>>]
        ELSE [aborted |-> FALSE, ranking |-> CalculateAverageAndRank(p.user_data),
              longest |-> l.value]

\* the row passes the month filter
PassesFilter(e) == e.event_time.form # "none" /\ StartsWithTargetMonth(e.event_time)

\* C7: a record that passes the month filter with an unparseable timestamp or
\* a missing field never aborts the batch; ranking and longest session are
\* produced and are those of the same input without that record.
C7_DefectiveRecordNeverAborts ==
    \A k \in 1..Len(raw_data) :
        ( /\ pc \in {"done", "aborted"}
          /\ PassesFilter(raw_data[k]) /\ IsDefective(raw_data[k])
          /\ \A i \in 1..Len(raw_data) : i # k => ~IsDefective(raw_data[i]) )
        => /\ pc = "done"
           /\ ~Pipeline(RemoveAt(raw_data, k)).aborted
           /\ ranked_result = Pipeline(RemoveAt(raw_data, k)).ranking
           /\ longest = Pipeline(RemoveAt(raw_data, k)).longest

-----------------------------------------------------------------------------
(* Claims on the aggregator inside the pipeline (SpecMain) *)

\* process_time_entries has returned
Aggregated == pc \in {"rank", "longest", "done"}

\* the positions of the valid rows of user u among the rows kept by get_data
ValidRowsOf(u) ==
    {i \in 1..Len(february_data) :
        IsValid(february_data[i]) /\ february_data[i].user_id = u}

\* the row as last_action stores it
AsAction(e) == <<Upper(e.event_type), Strptime(e.event_time).value>>

\* C11: after any valid event e of user u is processed, u's last_action is
\* (e.type, e.timestamp) whatever the transition; so GATE_IN t1, GATE_IN t2,
\* GATE_OUT t3 of one user credits t3 - t2 (7.5 hours for 09:00, 09:30,
\* 17:00), never t3 - t1.
C11_LastActionIsLatestEvent ==
    Aggregated =>
        /\ \A u \in Users :
              ValidRowsOf(u) # {} =>
                  LET k == CHOOSE i \in ValidRowsOf(u) : \A j \in ValidRowsOf(u) : j <= i
                  IN  LastActionOf(user_data, u) = AsAction(february_data[k])
        /\ \A u \in Users :
              ( /\ Len(february_data) = 3 /\ ValidRowsOf(u) = 1..3
                /\ AsAction(february_data[1])[1] = "GATE_IN"
                /\ AsAction(february_data[2])[1] = "GATE_IN"
                /\ AsAction(february_data[3])[1] = "GATE_OUT" )
              => TimeOf(user_data, u)
                    = AsAction(february_data[3])[2] - AsAction(february_data[2])[2]
        /\ raw_data = ExampleRepeatedIn
              => TimeOf(user_data, "u1") = 7 * TicksPerHour + TicksPerHour \div 2

\* the example list has been aggregated: 15 ticks, not the 16 from 09:00
C11_Witness ==
    /\ pc = "done" /\ raw_data = ExampleRepeatedIn
    /\ LastActionOf(user_data, "u1") = <<"GATE_OUT", Clock(17, 0)>>
    /\ TimeOf(user_data, "u1") = Clock(17, 0) - Clock(9, 30)

-----------------------------------------------------------------------------
(* Specification SpecRank: calculate_average_and_rank on any mapping of one  *)
(* or two users that process_time_entries can return, with total times up to *)
(* MaxTime ticks either way and up to MaxDates days present                  *)

\* A user of the returned mapping has had a valid event, so last_action is set;
\* without a credited pair time is 0 and days is empty.
RankValues(u) ==
    {[user_id |-> u, time |-> t, days |-> d, last_action |-> <<"GATE_OUT", 0>>] :
        t \in (-MaxTime)..MaxTime, d \in (SUBSET (0..(MaxDates - 1))) \ {{}}}
    \cup {[user_id |-> u, time |-> 0, days |-> {}, last_action |-> <<"GATE_IN", 0>>]}

RankInputs ==
    {<< >>} \cup {<<a>> : a \in RankValues("u1")}
        \cup {<<a, b>> : a \in RankValues("u1"), b \in RankValues("u2")}
        \cup {<<b, a>> : a \in RankValues("u1"), b \in RankValues("u2")}

RankInit ==
    /\ pc = "returned" /\ n = 0 /\ entry = NoEntry
    /\ user_data \in RankInputs /\ ranked_result = << >>
    /\ AggIdle

RankNext == AggRank

SpecRank == RankInit /\ [][RankNext]_vars

-----------------------------------------------------------------------------
(* Claims on calculate_average (SpecRank) *)

Abs(x) == IF x < 0 THEN -x ELSE x

\* h is num/den rounded to the nearest integer, an exact half to the even one
IsRounded(h, num, den) ==
    /\ 2 * Abs(num - h * den) <= den
    /\ 2 * Abs(num - h * den) = den => h % 2 = 0

\* C12: in every ranked entry average_per_day is 0 when days_present_count is
\* 0, and otherwise total_hours / days_present_count rounded to 2 decimals;
\* days_present_count is never negative.
C12_AverageIsRoundedQuotient ==
    pc = "ranked" =>
        \A i \in 1..Len(ranked_result) :
            LET r == ranked_result[i]
                v == user_data[IndexOf(user_data, r.user_id)]
            IN  /\ r.time = v.time
                /\ r.days = Cardinality(v.days)
                /\ r.days >= 0
                /\ IF r.days = 0
                   THEN r.average_per_day = 0
                   ELSE IsRounded(r.average_per_day, 100 * r.time, TicksPerHour * r.days)

\* ranked: a user without a day (average 0) and a user with 0.5 hours over
\* 3 days, 0.1666... rounded up to 0.17
C12_Witness ==
    /\ pc = "ranked" /\ Len(ranked_result) = 2
    /\ ranked_result[2].days = 0 /\ ranked_result[2].average_per_day = 0
    /\ ranked_result[1].days = 3 /\ ranked_result[1].time = 1
    /\ ranked_result[1].average_per_day = 17

-----------------------------------------------------------------------------
(* Claims on get_data (SpecMain) *)

\* get_data has returned: no cell without a value made it raise
GotData == pc # "get_data" /\ \A i \in 1..Len(raw_data) : raw_data[i].event_time.form # "none"

WellFormed(e) == e.event_time.form = "iso"

\* the timestamp of a well-formed row lies in February 2023
InFebruary(e) ==
    /\ Strptime(e.event_time).value >= 0
    /\ Strptime(e.event_time).value < DaysInFebruary * TicksPerDay

Count(seq, e) == Cardinality({i \in 1..Len(seq) : seq[i] = e})

\* a is b with some elements left out
RECURSIVE IsSubSequence(_, _)
IsSubSequence(a, b) ==
    IF a = << >> THEN TRUE
    ELSE IF b = << >> THEN FALSE
    ELSE IF Head(a) = Head(b) THEN IsSubSequence(Tail(a), Tail(b))
    ELSE IsSubSequence(a, Tail(b))

\* C13: get_data returns exactly the records whose timestamp lies in 2023-02,
\* in their original order and unmodified; records of another month reach
\* neither the aggregator nor the session reconstructor. (Cells that hold no
\* timestamp are not the filter's concern.)
C13_FilterKeepsFebruary ==
    GotData =>
        /\ IsSubSequence(february_data, raw_data)
        /\ \A i \in 1..Len(raw_data) :
              WellFormed(raw_data[i]) =>
                  Count(february_data, raw_data[i])
                      = (IF InFebruary(raw_data[i]) THEN Count(raw_data, raw_data[i]) ELSE 0)
        /\ \A i \in 1..Len(user_data) :
              /\ user_data[i].days \subseteq 0..(DaysInFebruary - 1)
              /\ user_data[i].last_action # NoAction
                    => DateOf(user_data[i].last_action[2]) \in 0..(DaysInFebruary - 1)
        /\ \A i \in 1..Len(activity_per_user) :
              \A j \in 1..Len(activity_per_user[i].events) :
                  DateOf(activity_per_user[i].events[j][1]) \in 0..(DaysInFebruary - 1)

\* a March record between two different February records has been dropped
\* and the run has finished
C13_Witness ==
    /\ pc = "done" /\ Len(raw_data) = 3
    /\ WellFormed(raw_data[2]) /\ ~InFebruary(raw_data[2])
    /\ raw_data[1] # raw_data[3]
    /\ february_data = <<raw_data[1], raw_data[3]>>
    /\ Len(activity_per_user) > 0

-----------------------------------------------------------------------------
(* Further claims on calculate_sessions (SpecSess) *)

\* the step is an iteration of the loop of calculate_sessions
SessIterated == pc = "sessions" /\ idx' = idx + 1

\* C14: a GATE_OUT changes only last_out; a GATE_IN met while a session is
\* open, with last_out unset or less than 2 hours back, changes nothing.
C14_OutSetsLastOutOnly ==
    [][ SessIterated =>
          LET ev == timestamps_action[idx + 1] IN
          /\ ev[2] = "GATE_OUT" =>
                /\ last_out_time' = ev[1]
                /\ start_time' = start_time
                /\ session_lengths' = session_lengths
          /\ ( /\ ev[2] = "GATE_IN" /\ start_time # NoTime
               /\ (last_out_time = NoTime \/ ev[1] - last_out_time < SessionBreakTicks) )
             => /\ last_out_time' = last_out_time
                /\ start_time' = start_time
                /\ session_lengths' = session_lengths ]_vars

\* a GATE_IN one hour after the GATE_OUT of the open session has been consumed
C14_Witness ==
    /\ pc = "sessions" /\ idx = 3
    /\ timestamps_action[3][2] = "GATE_IN"
    /\ timestamps_action[2][2] = "GATE_OUT"
    /\ timestamps_action[3][1] - last_out_time = TicksPerHour
    /\ start_time # NoTime /\ start_time < last_out_time
    /\ session_lengths = << >>

\* C15: every reported session is a maximal interval of presence: inside a
\* session no GATE_OUT -> GATE_IN gap exceeds 2 hours, and two consecutive
\* sessions are never separated by a gap that does not exceed 2 hours.
\* Stated for complete pairs in chronological order.
C15_SessionsAreMaximal ==
    (pc = "sessions_returned" /\ AlternatingPairs(timestamps_action)) =>
        \A k \in 1..(Len(timestamps_action) \div 2 - 1) :
            LET in_k == timestamps_action[2 * k - 1][1]
                out_k == timestamps_action[2 * k][1]
                in_next == timestamps_action[2 * k + 1][1]
                out_next == timestamps_action[2 * k + 2][1]
                together == \E j \in 1..Len(session_lengths) :
                                /\ session_lengths[j][1] <= in_k
                                /\ out_next <= session_lengths[j][2]
            IN  /\ together => in_next - out_k <= SessionBreakTicks
                /\ ~together => in_next - out_k > SessionBreakTicks

NonDecreasing(evs) == \A i \in 1..(Len(evs) - 1) : evs[i][1] <= evs[i + 1][1]

\* C16: for events in non-decreasing timestamp order, whatever the mix of
\* GATE_IN and GATE_OUT, every session appended has start <= end.
C16_NoNegativeSession ==
    NonDecreasing(timestamps_action) =>
        \A j \in 1..Len(session_lengths) : session_lengths[j][1] <= session_lengths[j][2]

\* the rows of user u among the rows kept by get_data, in input order
OwnRows(u) == SelectSeq(february_data, LAMBDA e : e.user_id = u)

\* the events grouped under u, none if u is no key
EventsOf(act, u) == IF IndexOf(act, u) = 0 THEN << >> ELSE act[IndexOf(act, u)].events

\* C17: per-user independence: what the aggregator holds for user u
\* (total_hours, days_present, last_action) and what the reconstructor holds
\* for u (the events grouped and the sessions made of them) are those computed
\* from u's own rows alone, in input order; rows of other users, wherever
\* they stand in the list, change nothing of it.
C17_PerUserIndependence ==
    \A u \in Users :
        /\ Aggregated =>
              LET alone == ProcessTimeEntries(OwnRows(u)).user_data
              IN  /\ TimeOf(user_data, u) = TimeOf(alone, u)
                  /\ DaysOf(user_data, u) = DaysOf(alone, u)
                  /\ LastActionOf(user_data, u) = LastActionOf(alone, u)
        /\ pc = "done" =>
              LET alone == GroupFrom(<< >>, OwnRows(u), 1).activity
              IN  /\ EventsOf(activity_per_user, u) = EventsOf(alone, u)
                  /\ CalculateSessions(EventsOf(activity_per_user, u))
                        = CalculateSessions(EventsOf(alone, u))

\* u1 enters, u2 enters, u1 leaves: u1 is credited around u2's event, and
\* both users have their own session list
C17_Witness ==
    /\ pc = "done" /\ Len(february_data) = 3
    /\ february_data[1].user_id = "u1" /\ february_data[2].user_id = "u2"
    /\ february_data[3].user_id = "u1"
    /\ TimeOf(user_data, "u1") = 1
    /\ LastActionOf(user_data, "u2")[1] = "GATE_IN"
    /\ Len(CalculateSessions(EventsOf(activity_per_user, "u1"))) = 1
    /\ Len(EventsOf(activity_per_user, "u2")) = 1

-----------------------------------------------------------------------------
(* Days present and credited time (SpecAgg) *)

\* the iteration credits a GATE_IN -> GATE_OUT pair to the user of the entry
CreditsPair ==
    /\ Iterated /\ IsValid(entry')
    /\ LastActionOf(user_data, entry'.user_id) # NoAction
    /\ Credited(LastActionOf(user_data, entry'.user_id), AsAction(entry')[1],
                AsAction(entry')[2])

\* C18: days_present is non-empty once a user has been credited a
\* GATE_IN -> GATE_OUT pair (a credit records its day and no day is ever
\* removed), so total_hours != 0 implies days_present_count >= 1, and the
\* Ranker's zero-days average of 0 is only taken for a total of 0 hours.
C18_CreditedImpliesDayPresent ==
    [][ /\ CreditsPair => DaysOf(user_data', entry'.user_id) # {}
        /\ \A u \in Users : DaysOf(user_data, u) \subseteq DaysOf(user_data', u)
        /\ \A i \in 1..Len(user_data') :
              user_data'[i].time # 0 => Cardinality(user_data'[i].days) >= 1
        /\ pc' = "ranked" =>
              \A j \in 1..Len(ranked_result') :
                  ranked_result'[j].days = 0 =>
                      /\ ranked_result'[j].time = 0
                      /\ ranked_result'[j].average_per_day = 0 ]_vars

\* ranked: one user with credited time and a day, one seen but never credited
C18_Witness ==
    /\ pc = "ranked" /\ Len(ranked_result) = 2
    /\ \E j \in 1..2 : ranked_result[j].time # 0 /\ ranked_result[j].days >= 1
    /\ \E j \in 1..2 : /\ ranked_result[j].days = 0 /\ ranked_result[j].time = 0
                       /\ ranked_result[j].average_per_day = 0

====
